---- MODULE Spec2Model ----
(***************************************************************************)
(* Model of quancri's step-plan engine: Agent.register_tool,               *)
(* Agent.execute_step and Agent.process_question                           *)
(* (src/quancri/agents/agents.py), over the tool classes of                *)
(* src/quancri/tools.                                                      *)
(*                                                                         *)
(* Strings that the code builds with f-strings are sequences of tokens and *)
(* concatenation is \o.  A JSON mapping is a function from its keys; JSON  *)
(* null and Python None are NoneVal / NullParams.                          *)
(***************************************************************************)
EXTENDS Integers, Sequences, FiniteSets, TLC

\* ------------------------------------------------------------------ bounds
\* longest plan the planner answers with
MaxSteps == 2
\* largest integer the planner puts in use_previous_results
MaxIndex == 0

\* ------------------------------------------------------------ value domain
NoneVal == "None"

\* process_question calls on one Agent
Runs == {"q1", "q2"}

\* the call that runs when questions are asked one at a time
Solo == {"q1"}

\* values a tool operation returns (None is a legal return value)
Values == {"150.25"}
ReturnValues == Values \cup {NoneVal}

\* what the synthesizer answers
Outputs == {"answer"}

\* a call llm_provider.generate(messages=[prompt]): who is asked, the
\* question and the context put in the prompt, and what came back
Generate(to, question, ctx) ==
  [to |-> to, question |-> question, context |-> ctx, output |-> NoneVal]

\* str(e) of the exceptions a tool operation raises
Messages == {"boom"}

\* a JSON value under use_previous_results: <<python type, payload>>;
\* True and False are the ints 1 and 0 of type bool, "0" is a str
IntRefs == {<<"int", i>> : i \in (-1)..MaxIndex}
BoolRefs == {<<"bool", 0>>}
StrRefs == {<<"str", 0>>}

\* ---------------------------------------------------------------- mappings
EmptyMap == [k \in {} |-> NoneVal]

\* tool_params: null
NullParams == [k \in {"null"} |-> NoneVal]

\* dict.pop(k, default) as far as the remaining mapping goes
Pop(m, k) == [x \in (DOMAIN m) \ {k} |-> m[x]]

\* m[k] = v
Put(m, k, v) == [x \in (DOMAIN m) \cup {k} |-> IF x = k THEN v ELSE m[x]]

\* tool_params: ["AAPL"], a JSON list where a mapping is expected
ListParams == [k \in {"list"} |-> "AAPL"]

\* the value is a dict
IsMapping(m) == m # NullParams /\ m # ListParams

\* bool(tool_params): None and {} are falsy
Truthy(m) == m # NullParams /\ DOMAIN m # {}

\* ------------------------------------------------------------ tool classes
ToolClasses == {"StockPriceTool", "NewsAPIClient"}

NoAttr == [kind |-> "none", public |-> FALSE, accepts_previous_result |-> FALSE]

\* getattr(tool, function_name, None) together with what inspect reports of
\* the attribute: kind is "async" (coroutine function), "sync" (plain
\* method), "data" (a truthy attribute that is not callable) or "none"
\*   StockPriceTool.execute(..., previous_result=None)  stock_tools.py:29-36
\*   StockPriceTool.category = ToolCategory.FINANCE      stock_tools.py:27
\*   NewsAPIClient.execute(**kwargs)                     news_api.py:114
\*   NewsAPIClient.fetch_company_news(...)               news_api.py:164
\*   NewsAPIClient._make_request(url, params)            news_api.py:341
GetAttr(tool, function_name) ==
  IF tool = "StockPriceTool" /\ function_name = "execute"
    THEN [kind |-> "async", public |-> TRUE, accepts_previous_result |-> TRUE]
  ELSE IF tool = "StockPriceTool" /\ function_name = "category"
    THEN [kind |-> "data", public |-> TRUE, accepts_previous_result |-> FALSE]
  ELSE IF tool = "NewsAPIClient" /\ function_name = "execute"
    THEN [kind |-> "async", public |-> TRUE, accepts_previous_result |-> FALSE]
  ELSE IF tool = "NewsAPIClient" /\ function_name = "fetch_company_news"
    THEN [kind |-> "sync", public |-> TRUE, accepts_previous_result |-> FALSE]
  ELSE IF tool = "NewsAPIClient" /\ function_name = "_make_request"
    THEN [kind |-> "sync", public |-> FALSE, accepts_previous_result |-> FALSE]
  ELSE NoAttr

\* --------------------------------------------------- the planner's answers
Description == <<"fetch data">>

\* tool_params that refer to an earlier step
RefParams ==
  {[symbol |-> "AAPL", use_previous_results |-> i] : i \in IntRefs \cup BoolRefs \cup StrRefs}

\* tool_params that carry every key execute_step treats specially
AllKeys ==
  [function_name |-> "execute", use_previous_results |-> <<"int", 0>>,
   previous_result |-> "direct"]

\* the tool_params the planner gives a StockPriceTool step
StockParams ==
  RefParams \cup
  { NullParams,
    [symbol |-> "AAPL"],
    [previous_result |-> "direct"],
    AllKeys,
    [function_name |-> "category"],
    [function_name |-> "no_such_fn"] }

\* the tool_params the planner gives a NewsAPIClient step
NewsParams ==
  { [symbol |-> "AAPL"],
    AllKeys,
    [function_name |-> "fetch_company_news"],
    [function_name |-> "_make_request", url |-> "https://example.org", params |-> "{}"] }

Step(requires_tool, tool_name, tool_params) ==
  [step |-> Description, requires_tool |-> requires_tool, tool_name |-> tool_name,
   tool_params |-> tool_params]

\* one element of the JSON array that analyze_question parses
PlannerSteps ==
  {Step(TRUE, "StockPriceTool", p) : p \in StockParams}
  \cup {Step(TRUE, "NewsAPIClient", p) : p \in NewsParams}
  \cup { Step(FALSE, NoneVal, NullParams),
         Step(FALSE, "StockPriceTool", NullParams),
         Step(FALSE, "StockPriceTool", [symbol |-> "AAPL"]),
         Step(TRUE, NoneVal, [symbol |-> "AAPL"]) }

RECURSIVE SeqsUpTo(_, _)
SeqsUpTo(S, n) ==
  IF n = 0 THEN {<<>>}
  ELSE LET shorter == SeqsUpTo(S, n - 1)
       IN shorter \cup {Append(p, s) : p \in {q \in shorter : Len(q) = n - 1}, s \in S}

Plans == SeqsUpTo(PlannerSteps, MaxSteps)

\* ------------------------------------------------------------ ToolRegistry
\* one entry of the parameters list that _discover_capabilities iterates
ParameterSpec(name, required) == [name |-> name, required |-> required]

\* The tools handed to register_tool, as what register_tool reads of them.
\*   StockPriceTool    the repository's price tool: its metadata is the
\*                     ToolMetadata of tool_model.py, which has no parameters
\*   UndocumentedTool  a Tool subclass without a public function
\*   CachedPriceTool   a StockPriceTool subclass whose metadata carries a
\*                     parameters list
\*   WebSearchTool     a tool whose metadata carries a parameters list with
\*                     two required parameters
\*   FeedTool          a tool whose metadata carries a parameters list
\*                     without a required parameter
RegistryTools ==
  {"StockPriceTool", "UndocumentedTool", "CachedPriceTool", "WebSearchTool", "FeedTool"}

ToolDescriptor(t) ==
  CASE t = "StockPriceTool" ->
         [is_price |-> TRUE, functions |-> {"execute"}, has_parameters |-> FALSE,
          parameters |-> <<>>]
    [] t = "UndocumentedTool" ->
         [is_price |-> FALSE, functions |-> {}, has_parameters |-> FALSE,
          parameters |-> <<>>]
    [] t = "CachedPriceTool" ->
         [is_price |-> TRUE, functions |-> {"execute"}, has_parameters |-> TRUE,
          parameters |-> <<ParameterSpec("symbol", TRUE), ParameterSpec("period", FALSE)>>]
    [] t = "WebSearchTool" ->
         [is_price |-> FALSE, functions |-> {"execute"}, has_parameters |-> TRUE,
          parameters |-> <<ParameterSpec("query", TRUE), ParameterSpec("symbol", TRUE)>>]
    [] t = "FeedTool" ->
         [is_price |-> FALSE, functions |-> {"execute"}, has_parameters |-> TRUE,
          parameters |-> <<ParameterSpec("limit", FALSE)>>]
    [] OTHER ->
         [is_price |-> t = "StockPriceTool", functions |-> {"execute"},
          has_parameters |-> FALSE, parameters |-> <<>>]

NoFunctionsUnchecked(t) == FALSE

\* tool.py:109: the metadata property raises ValueError when the class has
\* no public function
NoFunctions(t) == ToolDescriptor(t).functions = {}

\* f"get_by_{param.name}"
GetBy(param) == <<"get_by_", param>>

\* a ToolCapability, as find_tool_for_capability reads it; fallback_tools
\* is <<>> for the default None
ToolCapability(name, required_params, fallback_tools) ==
  [name |-> name, required_params |-> required_params, fallback_tools |-> fallback_tools]

\* tool_capabilities.py:40-59
PriceCapabilities ==
  << ToolCapability(<<"get_current_price">>, <<"symbol">>,
                    <<"WebSearchTool", "CachedPriceTool">>),
     ToolCapability(<<"get_historical_prices">>, <<"symbol", "start_date", "end_date">>,
                    <<"WebSearchTool", "CachedPriceTool">>) >>

\* tool_capabilities.py:62-73
GenericCapabilities(parameters) ==
  LET required == SelectSeq(parameters, LAMBDA p : p.required)
  IN [i \in 1..Len(required) |->
        ToolCapability(GetBy(required[i].name), <<required[i].name>>, <<>>)]

\* _discover_capabilities for a tool whose metadata has parameters
DiscoverCapabilities(t) ==
  (IF ToolDescriptor(t).is_price THEN PriceCapabilities ELSE <<>>)
    \o GenericCapabilities(ToolDescriptor(t).parameters)

\* d[key] = value on a dict kept in insertion order
DictSet(d, key, value) ==
  IF \E i \in DOMAIN d : d[i].name = key
    THEN [i \in DOMAIN d |->
            IF d[i].name = key THEN [name |-> key, caps |-> value] ELSE d[i]]
    ELSE Append(d, [name |-> key, caps |-> value])

\* the elements of a list
Elements(list) == {list[i] : i \in DOMAIN list}

\* required_params as the caller passes it: not given (None) or a list
NoParams == [given |-> FALSE, names |-> {}]

ParamList(names) == [given |-> TRUE, names |-> names]

MatchesExactly(cap, capability_name, required_params) ==
  /\ cap.name = capability_name
  /\ \/ ~required_params.given
     \/ required_params.names = Elements(cap.required_params)

\* tool_capabilities.py:84-89
Matches(cap, capability_name, required_params) ==
  /\ cap.name = capability_name
  /\ \/ ~required_params.given
     \/ required_params.names = {}
     \/ \A param \in required_params.names : param \in Elements(cap.required_params)

\* position of the first capability of the list that matches, 0 if none
\* (the inner loop and its break, tool_capabilities.py:83-96)
FirstMatch(caps, capability_name, required_params) ==
  LET hits == {i \in DOMAIN caps : Matches(caps[i], capability_name, required_params)}
  IN IF hits = {} THEN 0 ELSE CHOOSE i \in hits : \A j \in hits : i <= j

FirstListed(fallback_tools, registered) == fallback_tools[1]

\* tool_capabilities.py:92-95: next((t for t in fallback_tools if t in self.tools), None)
FirstRegistered(fallback_tools, registered) ==
  LET hits == {i \in DOMAIN fallback_tools : fallback_tools[i] \in registered}
  IN IF hits = {} THEN NoneVal
     ELSE fallback_tools[CHOOSE i \in hits : \A j \in hits : i <= j]

\* the outer loop of find_tool_for_capability from entry i on, best being
\* <<best_match, fallback>> so far (tool_capabilities.py:82-96)
RECURSIVE FindFrom(_, _, _, _, _, _)
FindFrom(table, registered, capability_name, required_params, i, best) ==
  IF i > Len(table) THEN best
  ELSE LET m == FirstMatch(table[i].caps, capability_name, required_params)
       IN IF m = 0 \/ table[i].name \notin registered
            THEN FindFrom(table, registered, capability_name, required_params, i + 1, best)
            ELSE LET cap == table[i].caps[m]
                     fallback == IF cap.fallback_tools # <<>>
                                   THEN FirstRegistered(cap.fallback_tools, registered)
                                   ELSE best[2]
                 IN FindFrom(table, registered, capability_name, required_params, i + 1,
                             <<table[i].name, fallback>>)

\* tool_capabilities.py:77-98
FindToolForCapability(table, registered, capability_name, required_params) ==
  FindFrom(table, registered, capability_name, required_params, 1, <<NoneVal, NoneVal>>)

GetToolEcho(registered, name) == name

\* tool_capabilities.py:100-102
GetTool(registered, name) == IF name \in registered THEN name ELSE NoneVal

\* the capability names and parameter lists that callers ask for
RequestedCapabilities ==
  {<<"get_current_price">>, <<"get_historical_prices">>, GetBy("symbol"), GetBy("ticker")}

RequestedParams ==
  {NoParams, ParamList({}), ParamList({"symbol"}), ParamList({"symbol", "start_date"}),
   ParamList({"symbol", "query"})}

\* no lookup has been made
NoLookup == [op |-> "none", capability |-> <<>>, params |-> NoParams, tool |-> NoneVal,
             result |-> <<NoneVal, NoneVal>>]

\* a register_tool call that raised, and the tool it was called with
Raised(t, exception) == [tool |-> t, raised |-> exception]

\* the last register_tool call returned, or none was made
Returned == Raised(NoneVal, NoneVal)

\* neither register_tool has raised
NoException == [agent |-> Returned, registry |-> Returned]

\* ------------------------------------------------------------------- state
VARIABLES
  tools,      \* Agent.tools: the names under which a tool is registered
  pc,         \* per run: where process_question stands
  exc,        \* per run: the exception process_question ended with, or NoneVal
  steps,      \* per run: the plan; execute_step rewrites step["step"] in place
  context,    \* per run: the local list context of process_question
  inflight,   \* per run: the awaited tool call, or NoCall
  calls,      \* per run: history of the operations invoked, with their arguments
  outcome,    \* per run: history of how execute_step ended for each step
  answer,     \* per run: what process_question returned, or NoneVal
  response,   \* per run: what the planner's response was: "json", "not json" or NoneVal
  llm,        \* per run: history of the llm_provider.generate calls
  reg_tools,  \* ToolRegistry.tools: the names under which a tool is registered
  reg_caps,   \* ToolRegistry.capabilities, in the dict's insertion order
  lookup,     \* the last find_tool_for_capability / get_tool call and its result
  reg_exc     \* how the last register_tool call of the Agent / the ToolRegistry ended

registryVars == <<reg_tools, reg_caps, lookup, reg_exc>>

vars == <<tools, pc, exc, steps, context, inflight, calls, outcome, answer, response, llm,
          reg_tools, reg_caps, lookup, reg_exc>>

NoCall == [index |-> 0]

\* tool_metadata: None
NoMetadata == [name |-> NoneVal]

\* --------------------------------------------------- Agent.execute_step
ToolNotAvailableSuffix(description) == description \o <<" [Tool not available]">>

\* agents.py:41
ToolNotAvailable(description) == <<"[Tool not available] ">> \o description

FunctionNotAvailableThenError(function_name, description) ==
  <<"[Error] ", "[Function not available] ", function_name, " in ">> \o description

\* agents.py:60
FunctionNotAvailable(function_name, description) ==
  <<"[Function not available] ", function_name, " in ">> \o description

\* agents.py:83
ErrorAnnotation(description, message) ==
  <<"[Error] ">> \o description \o <<": ", message>>

\* agents.py:46
CopyParams(step) ==
  IF Truthy(step.tool_params) THEN step.tool_params ELSE EmptyMap

\* isinstance(step_index, int): bool is a subclass of int
IsInstanceInt(v) == v[1] \in {"int", "bool"}

BindPreviousResultOrNone(tool_params, previous_results) ==
  IF "use_previous_results" \in DOMAIN tool_params
    THEN LET step_index == tool_params["use_previous_results"]
             popped == Pop(tool_params, "use_previous_results")
         IN IF IsInstanceInt(step_index)
               /\ 0 <= step_index[2] /\ step_index[2] < Len(previous_results)
              THEN Put(popped, "previous_result", previous_results[step_index[2] + 1].result)
              ELSE Put(popped, "previous_result", NoneVal)
    ELSE tool_params

BindPreviousResultFromOne(tool_params, previous_results) ==
  IF "use_previous_results" \in DOMAIN tool_params
    THEN LET step_index == tool_params["use_previous_results"]
             popped == Pop(tool_params, "use_previous_results")
         IN IF IsInstanceInt(step_index)
               /\ 0 < step_index[2] /\ step_index[2] < Len(previous_results)
              THEN Put(popped, "previous_result", previous_results[step_index[2] + 1].result)
              ELSE popped
    ELSE tool_params

\* agents.py:49-52
BindPreviousResult(tool_params, previous_results) ==
  IF "use_previous_results" \in DOMAIN tool_params
    THEN LET step_index == tool_params["use_previous_results"]
             popped == Pop(tool_params, "use_previous_results")
         IN IF IsInstanceInt(step_index)
               /\ 0 <= step_index[2] /\ step_index[2] < Len(previous_results)
              THEN Put(popped, "previous_result", previous_results[step_index[2] + 1].result)
              ELSE popped
    ELSE tool_params

\* agents.py:55, the value popped
FunctionName(tool_params) ==
  IF "function_name" \in DOMAIN tool_params THEN tool_params["function_name"] ELSE "execute"

StripPreviousResultKeeps(tool_params, attr) == tool_params

\* agents.py:64-66
StripPreviousResult(tool_params, attr) ==
  IF ~attr.accepts_previous_result THEN Pop(tool_params, "previous_result") ELSE tool_params

\* inspect.signature(tool_function) on an attribute that is no callable
NotCallable == "is not a callable object"

\* agents.py:55: tool_params.pop('function_name', 'execute') raises TypeError
\* on a list; the handler's print (agents.py:82) then reads function_name,
\* which was never assigned, and UnboundLocalError leaves execute_step
PopRaises(tool_params) == ~IsMapping(tool_params) /\ Truthy(tool_params)

NeedsToolByName(step) == step.tool_name # NoneVal

\* agents.py:32-37: the step requires a tool and names one
NeedsTool(step) == step.requires_tool /\ step.tool_name # NoneVal

Return(description) == [kind |-> "return", step |-> description]

\* execute_step up to the point where it either returns None or calls the
\* operation (agents.py:32-75)
Dispatch(step, previous_results, registered) ==
  IF ~NeedsTool(step) THEN Return(step.step)
  ELSE IF step.tool_name \notin registered THEN Return(ToolNotAvailable(step.step))
  ELSE IF PopRaises(step.tool_params)
    THEN [kind |-> "escape", exception |-> "UnboundLocalError"]
  ELSE LET bound == BindPreviousResult(CopyParams(step), previous_results)
           function_name == FunctionName(bound)
           tool_params == Pop(bound, "function_name")
           attr == GetAttr(step.tool_name, function_name)
       IN IF attr.kind = "none"
            THEN Return(FunctionNotAvailable(function_name, step.step))
          ELSE IF attr.kind = "data"
            THEN Return(ErrorAnnotation(step.step, NotCallable))
          ELSE [kind |-> "call", tool |-> step.tool_name, function |-> function_name,
                args |-> StripPreviousResult(tool_params, attr), async |-> attr.kind = "async"]

ParamsAfterStepAliased(step, previous_results, registered) ==
  IF NeedsTool(step) /\ step.tool_name \in registered /\ step.tool_params # NullParams
    THEN Pop(BindPreviousResult(step.tool_params, previous_results), "function_name")
    ELSE step.tool_params

\* agents.py:46: the mapping execute_step binds into and pops from is a copy,
\* so step["tool_params"] is after the call what it was before it
ParamsAfterStep(step, previous_results, registered) == step.tool_params

\* ----------------------------------------------- Agent.process_question
\* agents.py:110: step.get("tool_params", {}) is None when the planner wrote
\* "tool_params": null, and None.get raises AttributeError
MetadataRaises(step, registered) ==
  /\ step.tool_name # NoneVal
  /\ step.tool_name \in registered
  /\ step.tool_params = NullParams

\* agents.py:102-112
ToolMetadata(step, registered) ==
  IF step.tool_name # NoneVal /\ step.tool_name \in registered
    THEN [name |-> step.tool_name,
          function_called |-> FunctionName(step.tool_params),
          function_parameters |-> step.tool_params]
    ELSE NoMetadata

BuildEntryAsPlanned(step, result, registered) ==
  [step |-> Description,
   requires_tool |-> step.requires_tool,
   tool_name |-> step.tool_name,
   tool_metadata |-> ToolMetadata(step, registered),
   result |-> result]

BuildEntryDropsResult(step, result, registered) ==
  [step |-> step.step,
   requires_tool |-> step.requires_tool,
   tool_name |-> step.tool_name,
   tool_metadata |-> ToolMetadata(step, registered),
   result |-> NoneVal]

\* agents.py:114-120
BuildEntry(step, result, registered) ==
  [step |-> step.step,
   requires_tool |-> step.requires_tool,
   tool_name |-> step.tool_name,
   tool_metadata |-> ToolMetadata(step, registered),
   result |-> result]

\* context.append(entry)
AppendEntry(ctx, entry) == Append(ctx, entry)

PreviousResultsOfAnotherRun(r) == context[CHOOSE q \in Runs : q # r]

\* agents.py:98, 101: context is a local list of the process_question call
\* and it is the list that the call hands to execute_step
PreviousResults(r) == context[r]

\* position of the step the for loop of agents.py:99 is at
Current(r) == Len(outcome[r]) + 1

Init ==
  /\ tools = {}
  /\ pc = [r \in Runs |-> "off"]
  /\ exc = [r \in Runs |-> NoneVal]
  /\ steps = [r \in Runs |-> <<>>]
  /\ context = [r \in Runs |-> <<>>]
  /\ inflight = [r \in Runs |-> NoCall]
  /\ calls = [r \in Runs |-> <<>>]
  /\ outcome = [r \in Runs |-> <<>>]
  /\ answer = [r \in Runs |-> NoneVal]
  /\ response = [r \in Runs |-> NoneVal]
  /\ llm = [r \in Runs |-> <<>>]
  /\ reg_tools = {}
  /\ reg_caps = <<>>
  /\ lookup = NoLookup
  /\ reg_exc = NoException

RegisterToolReplacing(t) ==
  /\ tools' = {t}
  /\ reg_exc' = [reg_exc EXCEPT !.agent = Returned]
  /\ UNCHANGED <<pc, exc, steps, context, inflight, calls, outcome, answer>>
  /\ UNCHANGED <<response, llm, reg_tools, reg_caps, lookup>>

\* Agent.register_tool (agents.py:15-18)
RegisterTool(t) ==
  /\ IF NoFunctions(t)
       THEN /\ reg_exc' = [reg_exc EXCEPT !.agent = Raised(t, "ValueError")]
            /\ UNCHANGED tools
       ELSE /\ tools' = tools \cup {t}
            /\ reg_exc' = [reg_exc EXCEPT !.agent = Returned]
  /\ UNCHANGED <<pc, exc, steps, context, inflight, calls, outcome, answer>>
  /\ UNCHANGED <<response, llm, reg_tools, reg_caps, lookup>>

\* process_question is called: analyze_question awaits the planner
\* (agents.py:95, 272)
StartQuestion(r) ==
  /\ pc[r] = "off"
  /\ pc' = [pc EXCEPT ![r] = "planning"]
  /\ llm' = [llm EXCEPT ![r] = Append(@, Generate("planner", r, <<>>))]
  /\ UNCHANGED <<tools, exc, steps, context, inflight, calls, outcome, answer>>
  /\ UNCHANGED <<response, registryVars>>

\* json.loads(response) succeeds (agents.py:278); context = [] (agents.py:98)
PlannerAnswersFrom(r, plans) ==
  /\ pc[r] = "planning"
  /\ \E plan \in plans : steps' = [steps EXCEPT ![r] = plan]
  /\ context' = [context EXCEPT ![r] = <<>>]
  /\ response' = [response EXCEPT ![r] = "json"]
  /\ pc' = [pc EXCEPT ![r] = "loop"]
  /\ UNCHANGED <<tools, exc, inflight, calls, outcome, answer>>
  /\ UNCHANGED <<llm, registryVars>>

PlannerAnswers(r) == PlannerAnswersFrom(r, Plans)

PlannerUnparseableEmptyPlan(r) ==
  /\ pc[r] = "planning"
  /\ response' = [response EXCEPT ![r] = "not json"]
  /\ steps' = [steps EXCEPT ![r] = <<>>]
  /\ context' = [context EXCEPT ![r] = <<>>]
  /\ pc' = [pc EXCEPT ![r] = "loop"]
  /\ UNCHANGED <<tools, exc, inflight, calls, outcome, answer>>
  /\ UNCHANGED <<llm, registryVars>>

\* json.loads raises JSONDecodeError: analyze_question prints and returns
\* None (agents.py:279-280), and "for step in None" raises TypeError
PlannerUnparseable(r) ==
  /\ pc[r] = "planning"
  /\ response' = [response EXCEPT ![r] = "not json"]
  /\ pc' = [pc EXCEPT ![r] = "raised"]
  /\ exc' = [exc EXCEPT ![r] = "TypeError"]
  /\ UNCHANGED <<tools, steps, context, inflight, calls, outcome, answer>>
  /\ UNCHANGED <<llm, registryVars>>

\* execute_step has returned result for step k, its description now being
\* description: the rest of the loop body (agents.py:101-120).  registered is
\* what Agent.tools held when execute_step looked the tool up.
Finish(r, k, result, description, how, registered) ==
  LET step == [steps[r][k] EXCEPT
                 !.step = description,
                 !.tool_params = ParamsAfterStep(steps[r][k], context[r], registered)]
  IN /\ steps' = [steps EXCEPT ![r][k] = step]
     /\ outcome' = [outcome EXCEPT ![r] =
                      Append(@, [result |-> result, before |-> steps[r][k].step,
                                 after |-> description, how |-> how,
                                 registered |-> registered,
                                 params |-> steps[r][k].tool_params])]
     /\ IF MetadataRaises(step, tools)
          THEN /\ pc' = [pc EXCEPT ![r] = "raised"]
               /\ exc' = [exc EXCEPT ![r] = "AttributeError"]
               /\ UNCHANGED context
          ELSE /\ pc' = [pc EXCEPT ![r] = "loop"]
               /\ context' = [context EXCEPT ![r] =
                                AppendEntry(@, BuildEntry(step, result, tools))]
               /\ UNCHANGED exc

\* the invocation tool_function(**tool_params) of agents.py:73/75, with the
\* tools that were registered when execute_step looked the tool up
CallRecord(k, d, registered) ==
  [index |-> k, tool |-> d.tool, function |-> d.function, args |-> d.args,
   registered |-> registered]

\* a step for which execute_step returns before calling any operation
StepWithoutCall(r) ==
  /\ pc[r] = "loop"
  /\ Current(r) <= Len(steps[r])
  /\ LET k == Current(r)
         d == Dispatch(steps[r][k], PreviousResults(r), tools)
     IN /\ d.kind = "return"
        /\ Finish(r, k, NoneVal, d.step, "no call", tools)
  /\ UNCHANGED <<tools, inflight, calls, answer>>
  /\ UNCHANGED <<response, llm, registryVars>>

\* a step for which an exception leaves execute_step, and with it
\* process_question (agents.py:100)
StepEscapes(r) ==
  /\ pc[r] = "loop"
  /\ Current(r) <= Len(steps[r])
  /\ LET k == Current(r)
         d == Dispatch(steps[r][k], PreviousResults(r), tools)
     IN /\ d.kind = "escape"
        /\ outcome' = [outcome EXCEPT ![r] =
                         Append(@, [result |-> NoneVal, before |-> steps[r][k].step,
                                    after |-> steps[r][k].step, how |-> "escaped",
                                    registered |-> tools,
                                    params |-> steps[r][k].tool_params])]
        /\ exc' = [exc EXCEPT ![r] = d.exception]
  /\ pc' = [pc EXCEPT ![r] = "raised"]
  /\ UNCHANGED <<tools, steps, context, inflight, calls, answer>>
  /\ UNCHANGED <<response, llm, registryVars>>

\* a step whose operation is a plain method: called and finished without
\* suspending (agents.py:75)
StepCallsSync(r) ==
  /\ pc[r] = "loop"
  /\ Current(r) <= Len(steps[r])
  /\ LET k == Current(r)
         d == Dispatch(steps[r][k], PreviousResults(r), tools)
     IN /\ d.kind = "call"
        /\ ~d.async
        /\ calls' = [calls EXCEPT ![r] = Append(@, CallRecord(k, d, tools))]
        /\ \/ \E v \in ReturnValues :
                Finish(r, k, v, steps[r][k].step, "returned", tools)
           \/ \E m \in Messages :
                Finish(r, k, NoneVal, ErrorAnnotation(steps[r][k].step, m), "raised", tools)
  /\ UNCHANGED <<tools, inflight, answer>>
  /\ UNCHANGED <<response, llm, registryVars>>

StepAwaitsCallDetached(r) ==
  /\ pc[r] = "loop"
  /\ Current(r) <= Len(steps[r])
  /\ LET k == Current(r)
         d == Dispatch(steps[r][k], PreviousResults(r), tools)
     IN /\ d.kind = "call"
        /\ d.async
        /\ calls' = [calls EXCEPT ![r] = Append(@, CallRecord(k, d, tools))]
        /\ inflight' = [inflight EXCEPT ![r] = CallRecord(k, d, tools)]
  /\ UNCHANGED <<tools, pc, exc, steps, context, outcome, answer>>
  /\ UNCHANGED <<response, llm, registryVars>>

\* a step whose operation is a coroutine function: execute_step awaits it
\* (agents.py:73)
StepAwaitsCall(r) ==
  /\ pc[r] = "loop"
  /\ Current(r) <= Len(steps[r])
  /\ LET k == Current(r)
         d == Dispatch(steps[r][k], PreviousResults(r), tools)
     IN /\ d.kind = "call"
        /\ d.async
        /\ calls' = [calls EXCEPT ![r] = Append(@, CallRecord(k, d, tools))]
        /\ inflight' = [inflight EXCEPT ![r] = CallRecord(k, d, tools)]
  /\ pc' = [pc EXCEPT ![r] = "awaiting"]
  /\ UNCHANGED <<tools, exc, steps, context, outcome, answer>>
  /\ UNCHANGED <<response, llm, registryVars>>

\* the awaited operation returns a value (agents.py:73, 80)
ToolReturns(r) ==
  /\ pc[r] = "awaiting"
  /\ LET k == inflight[r].index
     IN \E v \in ReturnValues :
          Finish(r, k, v, steps[r][k].step, "returned", inflight[r].registered)
  /\ inflight' = [inflight EXCEPT ![r] = NoCall]
  /\ UNCHANGED <<tools, calls, answer>>
  /\ UNCHANGED <<response, llm, registryVars>>

ToolRaisesAndRetries(r) ==
  /\ pc[r] = "awaiting"
  /\ calls' = [calls EXCEPT ![r] = Append(@, inflight[r])]
  /\ UNCHANGED <<tools, pc, exc, steps, context, inflight, outcome, answer>>
  /\ UNCHANGED <<response, llm, registryVars>>

\* the awaited operation raises (agents.py:81-84)
ToolRaises(r) ==
  /\ pc[r] = "awaiting"
  /\ LET k == inflight[r].index
     IN \E m \in Messages :
          Finish(r, k, NoneVal, ErrorAnnotation(steps[r][k].step, m), "raised",
                 inflight[r].registered)
  /\ inflight' = [inflight EXCEPT ![r] = NoCall]
  /\ UNCHANGED <<tools, calls, answer>>
  /\ UNCHANGED <<response, llm, registryVars>>

\* the loop is over: generate_response awaits the synthesizer
\* (agents.py:122-124, 315)
Synthesize(r) ==
  /\ pc[r] = "loop"
  /\ Current(r) > Len(steps[r])
  /\ pc' = [pc EXCEPT ![r] = "synthesizing"]
  /\ llm' = [llm EXCEPT ![r] = Append(@, Generate("synthesizer", r, context[r]))]
  /\ UNCHANGED <<tools, exc, steps, context, inflight, calls, outcome, answer>>
  /\ UNCHANGED <<response, registryVars>>

\* the synthesizer answers and process_question returns its output
SynthesizerAnswers(r) ==
  /\ pc[r] = "synthesizing"
  /\ pc' = [pc EXCEPT ![r] = "done"]
  /\ \E output \in Outputs :
       /\ llm' = [llm EXCEPT ![r][Len(llm[r])].output = output]
       /\ answer' = [answer EXCEPT ![r] = output]
  /\ UNCHANGED <<tools, exc, steps, context, inflight, calls, outcome>>
  /\ UNCHANGED <<response, registryVars>>

Next ==
  \/ \E t \in ToolClasses : RegisterTool(t)
  \/ \E r \in Solo : StartQuestion(r)
  \/ \E r \in Solo : PlannerAnswers(r)
  \/ \E r \in Solo : PlannerUnparseable(r)
  \/ \E r \in Solo : StepWithoutCall(r)
  \/ \E r \in Solo : StepCallsSync(r)
  \/ \E r \in Solo : StepAwaitsCall(r)
  \/ \E r \in Solo : ToolReturns(r)
  \/ \E r \in Solo : ToolRaises(r)
  \/ \E r \in Solo : Synthesize(r)
  \/ \E r \in Solo : SynthesizerAnswers(r)

Spec == Init /\ [][Next]_vars

\* --------------------------------------- plans that may hold a malformed step
\* the steps of a plan in which tool_params may also be a list
RunSteps ==
  {Step(TRUE, "StockPriceTool", p) : p \in RefParams}
  \cup { Step(TRUE, "StockPriceTool", [symbol |-> "AAPL"]),
         Step(TRUE, "StockPriceTool", AllKeys),
         Step(TRUE, "StockPriceTool", [function_name |-> "no_such_fn"]),
         Step(TRUE, "StockPriceTool", [function_name |-> "category"]),
         Step(TRUE, "StockPriceTool", ListParams),
         Step(TRUE, "NewsAPIClient", [function_name |-> "fetch_company_news"]),
         Step(FALSE, NoneVal, NullParams) }

RunPlans == SeqsUpTo(RunSteps, MaxSteps)

\* one process_question call on such a plan
NextRun ==
  \/ \E t \in ToolClasses : RegisterTool(t)
  \/ \E r \in Solo : StartQuestion(r)
  \/ \E r \in Solo : PlannerAnswersFrom(r, RunPlans)
  \/ \E r \in Solo : PlannerUnparseable(r)
  \/ \E r \in Solo : StepWithoutCall(r)
  \/ \E r \in Solo : StepEscapes(r)
  \/ \E r \in Solo : StepCallsSync(r)
  \/ \E r \in Solo : StepAwaitsCall(r)
  \/ \E r \in Solo : ToolReturns(r)
  \/ \E r \in Solo : ToolRaises(r)
  \/ \E r \in Solo : Synthesize(r)
  \/ \E r \in Solo : SynthesizerAnswers(r)

SpecRun == Init /\ [][NextRun]_vars

\* ------------------------------------------- interleaved process_question
\* the step as the planner words it for one question
Worded(description, step) == [step EXCEPT !.step = description]

\* the plans of two questions asked of one Agent at the same time: their
\* steps are worded differently, so that an entry tells which plan it is of
ConcurrentPlans(r) ==
  IF r = "q1"
    THEN { << Worded(<<"fetch price">>, Step(TRUE, "StockPriceTool", [symbol |-> "AAPL"])),
              Worded(<<"compare price">>,
                     Step(TRUE, "StockPriceTool",
                          [symbol |-> "AAPL", use_previous_results |-> <<"int", 0>>])) >> }
    ELSE { << Worded(<<"fetch news">>,
                     Step(TRUE, "NewsAPIClient", [function_name |-> "fetch_company_news"])),
              Worded(<<"price the news">>,
                     Step(TRUE, "StockPriceTool",
                          [symbol |-> "AAPL", use_previous_results |-> <<"int", 0>>])) >>,
           << Worded(<<"recall">>, Step(FALSE, NoneVal, NullParams)) >> }

\* process_question calls of one Agent on one event loop: a call runs until
\* it awaits the planner, a tool or the synthesizer, and then any call goes on
NextConcurrent ==
  \/ \E t \in ToolClasses : RegisterTool(t)
  \/ \E r \in Runs : StartQuestion(r)
  \/ \E r \in Runs : PlannerAnswersFrom(r, ConcurrentPlans(r))
  \/ \E r \in Runs : StepWithoutCall(r)
  \/ \E r \in Runs : StepCallsSync(r)
  \/ \E r \in Runs : StepAwaitsCall(r)
  \/ \E r \in Runs : ToolReturns(r)
  \/ \E r \in Runs : ToolRaises(r)
  \/ \E r \in Runs : Synthesize(r)
  \/ \E r \in Runs : SynthesizerAnswers(r)

SpecConcurrent == Init /\ [][NextConcurrent]_vars

\* ------------------------------------------------------------ ToolRegistry
agentVars ==
  <<tools, pc, exc, steps, context, inflight, calls, outcome, answer, response, llm>>

\* ToolRegistry.register_tool (tool_capabilities.py:26-33): tool.metadata
\* raises ValueError before anything is stored; metadata.parameters raises
\* AttributeError (line 62) after self.tools[name] = tool (line 29) and
\* before self.capabilities[name] = capabilities (line 33)
RegistryRegisterTool(t) ==
  /\ IF NoFunctions(t)
       THEN /\ reg_exc' = [reg_exc EXCEPT !.registry = Raised(t, "ValueError")]
            /\ UNCHANGED <<reg_tools, reg_caps>>
       ELSE /\ reg_tools' = reg_tools \cup {t}
            /\ IF ToolDescriptor(t).has_parameters
                 THEN /\ reg_caps' = DictSet(reg_caps, t, DiscoverCapabilities(t))
                      /\ reg_exc' = [reg_exc EXCEPT !.registry = Returned]
                 ELSE /\ reg_exc' = [reg_exc EXCEPT !.registry = Raised(t, "AttributeError")]
                      /\ UNCHANGED reg_caps
  /\ UNCHANGED <<lookup, agentVars>>

\* a call of find_tool_for_capability (tool_capabilities.py:77-98)
FindTool(capability_name, required_params) ==
  /\ lookup' = [op |-> "find", capability |-> capability_name,
                params |-> required_params, tool |-> NoneVal,
                result |-> FindToolForCapability(reg_caps, reg_tools, capability_name,
                                                 required_params)]
  /\ UNCHANGED <<reg_tools, reg_caps, reg_exc, agentVars>>

\* a call of get_tool (tool_capabilities.py:100-102)
LookUpTool(name) ==
  /\ lookup' = [op |-> "get_tool", capability |-> <<>>, params |-> NoParams,
                tool |-> name, result |-> <<GetTool(reg_tools, name), NoneVal>>]
  /\ UNCHANGED <<reg_tools, reg_caps, reg_exc, agentVars>>

\* the tools handed to Agent.register_tool next to a registry
AgentTools == {"StockPriceTool", "UndocumentedTool"}

NextRegistry ==
  \/ \E t \in RegistryTools : RegistryRegisterTool(t)
  \/ \E t \in AgentTools : RegisterTool(t)
  \/ \E name \in RequestedCapabilities : \E params \in RequestedParams : FindTool(name, params)
  \/ \E t \in RegistryTools : LookUpTool(t)

SpecRegistry == Init /\ [][NextRegistry]_vars

\* ------------------------------------- an Agent and a ToolRegistry in use
\* the plans of the questions asked while tools are being registered
LifetimePlans == ConcurrentPlans("q1") \cup ConcurrentPlans("q2")

\* the tools handed to the registry meanwhile: one whose registration
\* raises after it was stored, one that registers, one that is rejected
LifetimeTools == {"StockPriceTool", "CachedPriceTool", "UndocumentedTool"}

\* registrations, lookups and a question run in any order
NextLifetime ==
  \/ \E t \in LifetimeTools : RegistryRegisterTool(t)
  \/ \E t \in ToolClasses \cup AgentTools : RegisterTool(t)
  \/ \E t \in LifetimeTools : LookUpTool(t)
  \/ FindTool(<<"get_current_price">>, ParamList({"symbol"}))
  \/ \E r \in Solo : StartQuestion(r)
  \/ \E r \in Solo : PlannerAnswersFrom(r, LifetimePlans)
  \/ \E r \in Solo : StepWithoutCall(r)
  \/ \E r \in Solo : StepCallsSync(r)
  \/ \E r \in Solo : StepAwaitsCall(r)
  \/ \E r \in Solo : ToolReturns(r)
  \/ \E r \in Solo : ToolRaises(r)
  \/ \E r \in Solo : Synthesize(r)
  \/ \E r \in Solo : SynthesizerAnswers(r)

SpecLifetime == Init /\ [][NextLifetime]_vars

\* ================================================================== claims
\* positions of the plan of run r for which execute_step has ended
Ran(r) == 1..Len(outcome[r])

\* the invocations made for the step at position k of run r
CallsAt(r, k) == {i \in DOMAIN calls[r] : calls[r][i].index = k}

\* the mapping m holds the key
HasKey(m, key) == m # NullParams /\ key \in DOMAIN m

\* the tool_params the planner gave the step an invocation was made for
ParamsOf(r, c) == steps[r][c.index].tool_params

\* the step's use_previous_results is an integer index into a context of n entries
ValidRef(tool_params, n) ==
  /\ HasKey(tool_params, "use_previous_results")
  /\ tool_params["use_previous_results"][1] = "int"
  /\ 0 <= tool_params["use_previous_results"][2]
  /\ tool_params["use_previous_results"][2] < n

\* the step's use_previous_results is there and is no integer index into a
\* context of n entries: negative, out of range, a boolean or a string
InvalidRef(tool_params, n) ==
  /\ HasKey(tool_params, "use_previous_results")
  /\ ~ValidRef(tool_params, n)

\* the zero-based index the step refers to, as a position of the context
RefPosition(tool_params) == tool_params["use_previous_results"][2] + 1

\* C1: an exception raised by the operation that execute_step invokes is
\* contained: execute_step returns None, the description becomes
\* "[Error] <description>: <message>", and process_question goes on with the
\* plan, the failed step's entry being in the context.
C1_RaiseNeverAbortsTheRun ==
  \A r \in Runs : \A k \in Ran(r) :
    outcome[r][k].how = "raised" =>
      /\ outcome[r][k].result = NoneVal
      /\ \E m \in Messages :
           outcome[r][k].after = <<"[Error] ">> \o outcome[r][k].before \o <<": ", m>>
      /\ Len(context[r]) >= k

\* C2: process_question appends exactly one entry per step that has run, in
\* plan order, whether the step succeeded or failed: once the step at
\* position k has run the context holds an entry for each of the steps up to k.
C2_OneEntryPerStep ==
  \A r \in Runs :
    /\ Len(context[r]) = Len(outcome[r])
    /\ \A k \in 1..Len(context[r]) :
         /\ context[r][k].step = steps[r][k].step
         /\ context[r][k].tool_name = steps[r][k].tool_name
         /\ context[r][k].requires_tool = steps[r][k].requires_tool

\* C3: no operation is started for a step before every earlier step's
\* execute_step has returned and its entry is in the context, and at most one
\* invocation of a run is unfinished at any time.
C3_OneStepInFlight ==
  \A r \in Runs :
    /\ \A i \in DOMAIN calls[r] :
         /\ calls[r][i].index <= Len(context[r]) + 1
         /\ calls[r][i].index <= Len(outcome[r]) + 1
    /\ Cardinality({i \in DOMAIN calls[r] : calls[r][i].index > Len(outcome[r])}) <= 1
    /\ pc[r] = "awaiting" =>
         /\ inflight[r].index = Len(context[r]) + 1
         /\ Len(outcome[r]) = Len(context[r])

\* an operation is awaited for the second step while the first step's entry,
\* the result of an earlier invocation, is in the context
C3_Witness ==
  \E r \in Runs :
    /\ pc[r] = "awaiting"
    /\ inflight[r].index = 2
    /\ Len(context[r]) = 1
    /\ CallsAt(r, 1) # {}

\* C4: a step with use_previous_results = i, i an integer with
\* 0 <= i < len(context), whose operation declares previous_result, is
\* invoked with previous_result = context[i].result.
C4_ValidReferenceIsBound ==
  \A r \in Runs : \A i \in DOMAIN calls[r] :
    LET c == calls[r][i]
    IN (/\ ValidRef(ParamsOf(r, c), c.index - 1)
        /\ GetAttr(c.tool, c.function).accepts_previous_result)
       => /\ "previous_result" \in DOMAIN c.args
          /\ c.args["previous_result"] = context[r][RefPosition(ParamsOf(r, c))].result

\* the second step refers to the first, carries a previous_result of its own,
\* and is invoked with the first step's result instead
C4_Witness ==
  \E r \in Runs : \E i \in DOMAIN calls[r] :
    LET c == calls[r][i]
    IN /\ c.index = 2
       /\ ValidRef(ParamsOf(r, c), 1)
       /\ HasKey(ParamsOf(r, c), "previous_result")
       /\ ParamsOf(r, c)["previous_result"] = "direct"
       /\ context[r][1].result = "150.25"
       /\ "previous_result" \in DOMAIN c.args
       /\ c.args["previous_result"] = "150.25"

\* C5: a step whose use_previous_results is invalid (negative, out of range,
\* a boolean, a string) and that carries no previous_result of its own is
\* still invoked, with the remaining parameters and without previous_result.
C5_InvalidReferenceIsDiscarded ==
  \A r \in Runs : \A i \in DOMAIN calls[r] :
    LET c == calls[r][i]
        tool_params == ParamsOf(r, c)
    IN (/\ InvalidRef(tool_params, c.index - 1)
        /\ ~HasKey(tool_params, "previous_result"))
       => /\ "previous_result" \notin DOMAIN c.args
          /\ c.args = Pop(Pop(tool_params, "use_previous_results"), "function_name")

\* C6: the value the operation of step i returns is context[i].result
\* (None when the step failed or invoked nothing), and a later step that
\* refers to i and accepts previous_result is invoked with that value.
C6_ReturnedValueIsThreaded ==
  \A r \in Runs :
    /\ \A k \in 1..Len(context[r]) :
         /\ context[r][k].result = outcome[r][k].result
         /\ outcome[r][k].how # "returned" => context[r][k].result = NoneVal
    /\ \A i \in DOMAIN calls[r] :
         LET c == calls[r][i]
         IN (/\ ValidRef(ParamsOf(r, c), c.index - 1)
             /\ GetAttr(c.tool, c.function).accepts_previous_result)
            => /\ "previous_result" \in DOMAIN c.args
               /\ c.args["previous_result"] = outcome[r][RefPosition(ParamsOf(r, c))].result

\* step A returned 150.25 and step B, with use_previous_results 0, received it
C6_Witness ==
  \E r \in Runs : \E i \in DOMAIN calls[r] :
    LET c == calls[r][i]
    IN /\ c.index = 2
       /\ ParamsOf(r, c) = [symbol |-> "AAPL", use_previous_results |-> <<"int", 0>>]
       /\ outcome[r][1].how = "returned"
       /\ outcome[r][1].result = "150.25"
       /\ context[r][1].result = "150.25"
       /\ c.args = [symbol |-> "AAPL", previous_result |-> "150.25"]

\* C7: a step that does not require a tool, or names none, gets None, no
\* invocation and an unchanged description.
C7_NoToolNoEffect ==
  \A r \in Runs :
    /\ \A k \in Ran(r) :
         (~steps[r][k].requires_tool \/ steps[r][k].tool_name = NoneVal) =>
           /\ outcome[r][k].result = NoneVal
           /\ outcome[r][k].after = outcome[r][k].before
           /\ steps[r][k].step = Description
    /\ \A i \in DOMAIN calls[r] :
         /\ steps[r][calls[r][i].index].requires_tool
         /\ steps[r][calls[r][i].index].tool_name # NoneVal

\* a step with requires_tool false that names a registered tool has run
C7_Witness ==
  \E r \in Runs : \E k \in Ran(r) :
    /\ ~steps[r][k].requires_tool
    /\ steps[r][k].tool_name \in outcome[r][k].registered
    /\ outcome[r][k].result = NoneVal
    /\ CallsAt(r, k) = {}

\* C8: a step that requires a tool and names an unregistered one gets None,
\* no invocation, no exception, and the description
\* "[Tool not available] <description>".
C8_UnregisteredToolIsAnnotated ==
  \A r \in Runs : \A k \in Ran(r) :
    (/\ steps[r][k].requires_tool
     /\ steps[r][k].tool_name # NoneVal
     /\ steps[r][k].tool_name \notin outcome[r][k].registered)
    => /\ outcome[r][k].result = NoneVal
       /\ outcome[r][k].after = <<"[Tool not available] ">> \o outcome[r][k].before
       /\ steps[r][k].step = <<"[Tool not available] ">> \o Description
       /\ CallsAt(r, k) = {}
       /\ Len(context[r]) >= k

\* a step naming a tool that was not registered has run while another tool was
C8_Witness ==
  \E r \in Runs : \E k \in Ran(r) :
    /\ steps[r][k].requires_tool
    /\ steps[r][k].tool_name = "NewsAPIClient"
    /\ outcome[r][k].registered = {"StockPriceTool"}
    /\ context[r][k].step = <<"[Tool not available] ", "fetch data">>

\* C9: a step of a registered tool whose function_name is no operation of the
\* tool gets None, no invocation, and the description
\* "[Function not available] <function_name> in <description>".
C9_MissingOperationIsAnnotated ==
  \A r \in Runs : \A k \in Ran(r) :
    LET function_name == FunctionName(steps[r][k].tool_params)
    IN (/\ steps[r][k].requires_tool
        /\ steps[r][k].tool_name # NoneVal
        /\ steps[r][k].tool_name \in outcome[r][k].registered
        /\ GetAttr(steps[r][k].tool_name, function_name).kind \notin {"async", "sync"})
       => /\ outcome[r][k].result = NoneVal
          /\ CallsAt(r, k) = {}
          /\ outcome[r][k].after =
               <<"[Function not available] ", function_name, " in ">> \o outcome[r][k].before

\* C10: the arguments delivered to an operation never hold
\* use_previous_results or function_name, and hold previous_result only if
\* the operation declares it.
C10_UndeclaredArgumentIsStripped ==
  \A r \in Runs : \A i \in DOMAIN calls[r] :
    LET c == calls[r][i]
    IN /\ "use_previous_results" \notin DOMAIN c.args
       /\ "function_name" \notin DOMAIN c.args
       /\ ~GetAttr(c.tool, c.function).accepts_previous_result
            => "previous_result" \notin DOMAIN c.args

\* an operation without previous_result was invoked for a step that carried
\* previous_result, a valid use_previous_results and function_name
C10_Witness ==
  \E r \in Runs : \E i \in DOMAIN calls[r] :
    LET c == calls[r][i]
    IN /\ c.tool = "NewsAPIClient"
       /\ ValidRef(ParamsOf(r, c), c.index - 1)
       /\ HasKey(ParamsOf(r, c), "previous_result")
       /\ HasKey(ParamsOf(r, c), "function_name")
       /\ c.args = EmptyMap

\* C11: execute_step leaves the step's own tool_params mapping as it was:
\* after the call, returned or raised, the mapping holds the keys and values
\* it held before, use_previous_results and function_name included, and no
\* previous_result it did not hold.
C11_StepParamsAreNotMutated ==
  \A r \in Runs : \A k \in Ran(r) :
    /\ steps[r][k].tool_params = outcome[r][k].params
    /\ \A i \in CallsAt(r, k) :
         HasKey(steps[r][k].tool_params, "previous_result")
           => HasKey(outcome[r][k].params, "previous_result")

\* an operation was invoked with a bound previous_result for a step whose
\* mapping carried use_previous_results but no previous_result, and the
\* mapping still reads as the planner wrote it
C11_Witness ==
  \E r \in Runs : \E i \in DOMAIN calls[r] :
    LET c == calls[r][i]
    IN /\ c.index \in Ran(r)
       /\ ValidRef(outcome[r][c.index].params, c.index - 1)
       /\ ~HasKey(outcome[r][c.index].params, "previous_result")
       /\ "previous_result" \in DOMAIN c.args
       /\ ParamsOf(r, c) = outcome[r][c.index].params

\* C12: when the planner's response is not JSON, process_question fails for
\* that question: no step is executed, no context entry is built and the
\* synthesizer is never called.
C12_UnparseablePlanIsFatal ==
  \A r \in Runs :
    response[r] = "not json"
      => /\ pc[r] = "raised"
         /\ exc[r] = "TypeError"
         /\ calls[r] = <<>>
         /\ outcome[r] = <<>>
         /\ context[r] = <<>>
         /\ answer[r] = NoneVal

\* a question failed on an unparseable plan on an Agent holding tools
C12_Witness ==
  \E r \in Runs : response[r] = "not json" /\ pc[r] = "raised" /\ tools # {}

\* ---------------------------------------------------- claims: ToolRegistry
\* the capability is of the requested name and holds every requested parameter
Satisfies(cap, capability_name, required_params) ==
  /\ cap.name = capability_name
  /\ required_params.given => required_params.names \subseteq Elements(cap.required_params)

\* positions of the capability table whose tool advertises a capability
\* that satisfies the request
Advertisers(capability_name, required_params) ==
  {i \in DOMAIN reg_caps :
     \E j \in DOMAIN reg_caps[i].caps :
       Satisfies(reg_caps[i].caps[j], capability_name, required_params)}

\* the least of a non-empty set of positions
Least(S) == CHOOSE i \in S : \A j \in S : i <= j

\* what find_tool_for_capability returns in the current registry
Found(capability_name, required_params) ==
  FindToolForCapability(reg_caps, reg_tools, capability_name, required_params)

\* the last lookup was this find, and the registry still answers it so
LastFind(capability_name, required_params) ==
  /\ lookup.op = "find"
  /\ lookup.capability = capability_name
  /\ lookup.params = required_params
  /\ lookup.result = Found(capability_name, required_params)

\* C13: when several registered tools advertise a capability of the
\* requested name that satisfies the parameter check, the primary returned
\* is the earliest registered of them.
C13_FirstMatchingToolWins ==
  \A name \in RequestedCapabilities : \A params \in RequestedParams :
    Advertisers(name, params) # {}
      => Found(name, params)[1] = reg_caps[Least(Advertisers(name, params))].name

\* the capability of the returned primary that the request matched
MatchedCapability(capability_name, required_params) ==
  LET primary == Found(capability_name, required_params)[1]
      i == CHOOSE i \in DOMAIN reg_caps : reg_caps[i].name = primary
      caps == reg_caps[i].caps
  IN caps[Least({j \in DOMAIN caps : Satisfies(caps[j], capability_name, required_params)})]

\* C14: the fallback returned is the first name of the matched capability's
\* fallback list that is registered, and None when that capability lists no
\* fallback or none of them is registered; there is no fallback without a
\* primary.
C14_FallbackComesFromMatchedCapability ==
  \A name \in RequestedCapabilities : \A params \in RequestedParams :
    LET found == Found(name, params)
    IN IF found[1] = NoneVal THEN found[2] = NoneVal
       ELSE LET listed == MatchedCapability(name, params).fallback_tools
                there == {i \in DOMAIN listed : listed[i] \in reg_tools}
            IN found[2] = IF there = {} THEN NoneVal ELSE listed[Least(there)]

\* a price capability was found although the first tool of its fallback
\* list is not registered: the fallback is the second one
C14_Witness ==
  /\ LastFind(<<"get_current_price">>, ParamList({"symbol"}))
  /\ "WebSearchTool" \notin reg_tools
  /\ lookup.result = <<"CachedPriceTool", "CachedPriceTool">>

\* C15: a capability is matched exactly when its name is the requested one
\* and every requested parameter is among its required parameters: a
\* request for fewer parameters than it declares matches, a request for a
\* parameter it does not declare never does.
C15_ParametersAreASubset ==
  \A name \in RequestedCapabilities : \A params \in RequestedParams :
    Found(name, params)[1] # NoneVal <=> Advertisers(name, params) # {}

\* get_historical_prices, which declares three parameters, was found by a
\* request naming two of them
C15_Witness ==
  /\ LastFind(<<"get_historical_prices">>, ParamList({"symbol", "start_date"}))
  /\ lookup.result[1] = "CachedPriceTool"
  /\ Found(<<"get_historical_prices">>, ParamList({"symbol", "query"}))[1] = NoneVal

\* C16: once ToolRegistry.register_tool has been called with StockPriceTool,
\* find_tool_for_capability("get_current_price", ["symbol"]) returns a price
\* tool as primary, and as fallback the first registered name of the price
\* capability's fallback list, or None.
C16_PriceToolIsFound ==
  "StockPriceTool" \in reg_tools
    => LET found == Found(<<"get_current_price">>, ParamList({"symbol"}))
           listed == PriceCapabilities[1].fallback_tools
           there == {i \in DOMAIN listed : listed[i] \in reg_tools}
       IN /\ found[1] \in {t \in reg_tools : ToolDescriptor(t).is_price}
          /\ found[2] = IF there = {} THEN NoneVal ELSE listed[Least(there)]

\* the capability list that the registry holds for the tool, <<>> if none
CapabilitiesOf(t) ==
  IF \E i \in DOMAIN reg_caps : reg_caps[i].name = t
    THEN reg_caps[CHOOSE i \in DOMAIN reg_caps : reg_caps[i].name = t].caps
    ELSE <<>>

\* C17: every tool that register_tool has stored has a non-empty capability
\* list, holding get_by_<p> requiring <<p>> for each of its required
\* parameters p.
C17_EveryToolAdvertisesACapability ==
  \A t \in reg_tools :
    /\ CapabilitiesOf(t) # <<>>
    /\ \A i \in DOMAIN ToolDescriptor(t).parameters :
         LET p == ToolDescriptor(t).parameters[i]
         IN p.required
              => \E j \in DOMAIN CapabilitiesOf(t) :
                   /\ CapabilitiesOf(t)[j].name = GetBy(p.name)
                   /\ CapabilitiesOf(t)[j].required_params = <<p.name>>

\* C18: a tool without a public function is in neither the Agent's nor the
\* ToolRegistry's tool map nor in the capability table, and a register_tool
\* call with such a tool has raised ValueError.
C18_UndocumentedToolIsRejected ==
  /\ \A t \in tools \cup reg_tools \cup {reg_caps[i].name : i \in DOMAIN reg_caps} :
       ToolDescriptor(t).functions # {}
  /\ \A call \in {reg_exc.agent, reg_exc.registry} :
       (call.tool # NoneVal /\ ToolDescriptor(call.tool).functions = {})
         => call.raised = "ValueError"

\* both register_tool calls have failed for the tool without a function,
\* on an Agent and a registry that hold other tools
C18_Witness ==
  /\ reg_exc.agent = Raised("UndocumentedTool", "ValueError")
  /\ reg_exc.registry = Raised("UndocumentedTool", "ValueError")
  /\ tools # {}
  /\ reg_caps # <<>>
  /\ "UndocumentedTool" \notin tools \cup reg_tools

\* C19: a find_tool_for_capability call for a capability name that no
\* registered tool advertises returns (None, None), a get_tool call for an
\* unregistered name returns None, and neither call changes the registry.
C19_UnknownIsAbsent ==
  [][lookup' # lookup
       => /\ UNCHANGED <<reg_tools, reg_caps, reg_exc>>
          /\ (/\ lookup'.op = "find"
              /\ \A i \in DOMAIN reg_caps : \A j \in DOMAIN reg_caps[i].caps :
                   reg_caps[i].caps[j].name # lookup'.capability)
               => lookup'.result = <<NoneVal, NoneVal>>
          /\ (lookup'.op = "get_tool" /\ lookup'.tool \notin reg_tools)
               => lookup'.result = <<NoneVal, NoneVal>>]_vars

\* get_tool was called with a name that a registry holding tools does not
\* hold, and returned None
C19_Witness ==
  /\ lookup.op = "get_tool"
  /\ lookup.tool \notin reg_tools
  /\ lookup.result = <<NoneVal, NoneVal>>
  /\ reg_tools # {}
  /\ reg_caps # <<>>

\* ------------------------------------------------------- claims: two runs
\* C20: when process_question runs interleave, each run's context holds
\* entries of its own plan's steps only, in plan order and with the results
\* its own steps gave, and every previous_result bound in a run is a result
\* of that run's context.
C20_ContextIsPerRun ==
  \A r \in Runs :
    /\ Len(context[r]) <= Len(steps[r])
    /\ \A i \in DOMAIN context[r] :
         /\ i \in Ran(r)
         /\ context[r][i].step = steps[r][i].step
         /\ context[r][i].tool_name = steps[r][i].tool_name
         /\ context[r][i].result = outcome[r][i].result
    /\ \A i \in DOMAIN calls[r] :
         LET c == calls[r][i]
         IN IF ValidRef(ParamsOf(r, c), c.index - 1)
              THEN /\ "previous_result" \in DOMAIN c.args
                   /\ c.args["previous_result"] =
                        context[r][RefPosition(ParamsOf(r, c))].result
              ELSE "previous_result" \notin DOMAIN c.args

\* both runs are awaiting the tool of their second step at the same time,
\* their first results differ, and each call was handed the result of its
\* own run
C20_Witness ==
  /\ \A r \in Runs :
       /\ pc[r] = "awaiting"
       /\ inflight[r].index = 2
       /\ Len(context[r]) = 1
       /\ inflight[r].args["previous_result"] = context[r][1].result
  /\ context["q1"][1].result # context["q2"][1].result
  /\ context["q1"][1].step # context["q2"][1].step

\* ------------------------------------------------- claims: the run as a whole
\* C21: within one run each step's operation is invoked at most once, the
\* invocations follow the plan's order, and a step for which execute_step
\* returned without invoking (tool or operation missing) has no invocation.
C21_NoStepIsInvokedTwice ==
  \A r \in Runs :
    /\ \A k \in DOMAIN steps[r] : Cardinality(CallsAt(r, k)) <= 1
    /\ \A i, j \in DOMAIN calls[r] : i < j => calls[r][i].index < calls[r][j].index
    /\ \A k \in Ran(r) : outcome[r][k].how = "no call" => CallsAt(r, k) = {}
    /\ \A i \in DOMAIN calls[r] : calls[r][i].index <= Current(r)

\* the first step's invocation raised, the run went on to the second step
\* and finished it, and the first step was invoked once
C21_Witness ==
  \E r \in Runs :
    /\ Len(outcome[r]) = 2
    /\ outcome[r][1].how = "raised"
    /\ Cardinality(CallsAt(r, 1)) = 1
    /\ Cardinality(CallsAt(r, 2)) = 1

\* C22: a context entry carries tool metadata exactly when a tool operation
\* was invoked for its step; the entry of a step that invoked nothing
\* (requires_tool false, operation missing) carries none.
C22_MetadataOnlyForUsedTools ==
  \A r \in Runs : \A i \in DOMAIN context[r] :
    context[r][i].tool_metadata # NoMetadata <=> CallsAt(r, i) # {}

\* the generate calls of run r that went to the planner / the synthesizer
AskedOf(r, to) == {i \in DOMAIN llm[r] : llm[r][i].to = to}

\* C23: for a question whose plan parses, the planner is called exactly once
\* and before any step, the synthesizer is called exactly once, after the
\* last step's entry was appended and with the question and the full
\* context, and process_question ends by returning the synthesizer's output.
C23_PlanThenStepsThenSynthesis ==
  \A r \in Runs :
    response[r] = "json"
      => /\ AskedOf(r, "planner") = {1}
         /\ Cardinality(AskedOf(r, "synthesizer")) <= 1
         /\ \A i \in AskedOf(r, "synthesizer") :
              /\ llm[r][i].question = r
              /\ llm[r][i].context = context[r]
              /\ Len(context[r]) = Len(steps[r])
         /\ pc[r] \in {"done", "raised"}
              => /\ AskedOf(r, "synthesizer") = {2}
                 /\ answer[r] = llm[r][2].output
                 /\ answer[r] \in Outputs

\* the names of the capability table
Advertised == {reg_caps[i].name : i \in DOMAIN reg_caps}

\* C24: no step removes a tool: a name that the Agent's tool map, the
\* registry's tool map or the capability table holds is held after any
\* register_tool call, lookup or step of a question run, and get_tool still
\* resolves it.
C24_ToolsAreNeverRemoved ==
  [][/\ tools \subseteq tools'
     /\ reg_tools \subseteq reg_tools'
     /\ Advertised \subseteq {reg_caps'[i].name : i \in DOMAIN reg_caps'}
     /\ \A t \in reg_tools : GetTool(reg_tools', t) = t]_vars

\* a question has run to its end and a lookup has resolved a tool, on an
\* Agent and a registry that each hold two tools, after a register_tool
\* call that raised
C24_Witness ==
  /\ Cardinality(tools) = 2
  /\ Cardinality(reg_tools) >= 2
  /\ Len(reg_caps) >= 1
  /\ reg_exc.registry.raised # NoneVal
  /\ \E r \in Runs : pc[r] = "done" /\ calls[r] # <<>>
  /\ lookup.op = "get_tool"
  /\ lookup.result[1] \in reg_tools

\* the marker that a description starts with, NoneVal if it starts with none
Marker(description) ==
  IF description # <<>> /\ Head(description) \in
       {"[Tool not available] ", "[Function not available] ", "[Error] "}
    THEN Head(description)
    ELSE NoneVal

\* C25: the description of a context entry is the step's description as it
\* stood when execute_step returned; the entry of a step whose tool was
\* missing, whose operation was missing or whose invocation raised starts
\* with the marker of that failure, and so does the entry that the
\* synthesizer is handed.
C25_EntryCarriesTheAnnotation ==
  \A r \in Runs :
    /\ \A i \in DOMAIN context[r] :
         LET entry == context[r][i]
             o == outcome[r][i]
             step == steps[r][i]
         IN /\ entry.step = o.after
            /\ entry.step = step.step
            /\ (NeedsTool(step) /\ step.tool_name \notin o.registered)
                 => entry.step = <<"[Tool not available] ">> \o o.before
            /\ (/\ NeedsTool(step)
                /\ step.tool_name \in o.registered
                /\ GetAttr(step.tool_name, FunctionName(step.tool_params)).kind = "none")
                 => /\ Marker(entry.step) = "[Function not available] "
                    /\ entry.step # o.before
            /\ o.how = "raised"
                 => \E m \in Messages :
                      entry.step = <<"[Error] ">> \o o.before \o <<": ", m>>
    /\ \A c \in AskedOf(r, "synthesizer") : llm[r][c].context = context[r]

\* the synthesizer was handed a context whose first entry is that of a step
\* whose invocation raised and whose second entry is that of a step whose
\* tool was missing
C25_Witness ==
  \E r \in Runs :
    /\ AskedOf(r, "synthesizer") = {2}
    /\ Len(llm[r][2].context) = 2
    /\ outcome[r][1].how = "raised"
    /\ Marker(llm[r][2].context[1].step) = "[Error] "
    /\ Marker(llm[r][2].context[2].step) \in
         {"[Tool not available] ", "[Function not available] "}

\* C26: for a step that names a registered tool, no exception leaves
\* execute_step whatever tool_params is: when it is no mapping, the failure
\* is contained like an invocation error, with an absent result and an
\* "[Error]" annotation.
C26_BadParamsAreContained ==
  \A r \in Runs : \A k \in Ran(r) :
    (NeedsTool(steps[r][k]) /\ steps[r][k].tool_name \in outcome[r][k].registered)
      => /\ outcome[r][k].how # "escaped"
         /\ (~IsMapping(outcome[r][k].params) /\ Truthy(outcome[r][k].params))
              => /\ outcome[r][k].result = NoneVal
                 /\ Marker(outcome[r][k].after) = "[Error] "

\* C27: every operation that execute_step invokes is one of the tool's
\* descriptor: a public method, its name not starting with an underscore.
C27_OnlyDescriptorOperationsAreInvoked ==
  \A r \in Runs : \A i \in DOMAIN calls[r] :
    GetAttr(calls[r][i].tool, calls[r][i].function).public

\* C28: the names of the registry's tool map are the names of its
\* capability table, whatever register_tool calls were made.
C28_ToolMapMatchesCapabilityTable ==
  reg_tools = Advertised

\* the failure markers in a description
Markers(description) ==
  {i \in DOMAIN description :
     description[i] \in {"[Tool not available] ", "[Function not available] ", "[Error] "}}

\* C29: one execution of execute_step adds at most one failure marker to
\* the step's description, and adds one only when it returns None: with any
\* other result the description is what it was before the call.
C29_AtMostOneMarkerAndOnlyOnFailure ==
  \A r \in Runs : \A k \in Ran(r) :
    LET o == outcome[r][k]
    IN /\ Cardinality(Markers(o.after)) <= Cardinality(Markers(o.before)) + 1
       /\ o.after # o.before
            => /\ o.result = NoneVal
               /\ Cardinality(Markers(o.after)) = Cardinality(Markers(o.before)) + 1
       /\ o.result # NoneVal => o.after = o.before

\* one step returned a value and kept its description, the next one found
\* no operation of the name and got one marker
C29_Witness ==
  \E r \in Runs :
    /\ Len(outcome[r]) = 2
    /\ outcome[r][1].result # NoneVal
    /\ outcome[r][1].after = outcome[r][1].before
    /\ Marker(outcome[r][2].after) = "[Function not available] "
    /\ Cardinality(Markers(outcome[r][2].after)) = 1

\* C30: a previous_result that execute_step bound for the step at position
\* k is the result of the step at the position i < k of the same run that
\* use_previous_results names; the first step is never bound one, and no
\* step receives its own result or that of a later step.
C30_BoundResultIsOfAnEarlierStep ==
  \A r \in Runs : \A n \in DOMAIN calls[r] :
    LET c == calls[r][n]
        planned == ParamsOf(r, c)
    IN ("previous_result" \in DOMAIN c.args
          /\ ~(HasKey(planned, "previous_result")
                 /\ c.args["previous_result"] = planned["previous_result"]))
         => /\ HasKey(planned, "use_previous_results")
            /\ LET i == RefPosition(planned)
               IN /\ 1 <= i
                  /\ i < c.index
                  /\ c.args["previous_result"] = outcome[r][i].result

\* the first step named index 0 and was invoked without a previous_result;
\* the second step named index 0 and was bound the first step's result
C30_Witness ==
  \E r \in Runs :
    /\ Len(calls[r]) = 2
    /\ calls[r][1].index = 1
    /\ calls[r][2].index = 2
    /\ steps[r][1].tool_params = [symbol |-> "AAPL", use_previous_results |-> <<"int", 0>>]
    /\ steps[r][2].tool_params = [symbol |-> "AAPL", use_previous_results |-> <<"int", 0>>]
    /\ "previous_result" \notin DOMAIN calls[r][1].args
    /\ Len(outcome[r]) >= 1
    /\ calls[r][2].args["previous_result"] = outcome[r][1].result

====
